---- MODULE Spec2Model ----
(***************************************************************************)
(* lfpod: a background sweep (updateFeeds/doUpdate) downloads and recodes  *)
(* the audio of new videos of the configured channels; concurrently the    *)
(* HTTP server answers GET /feed (feedGetHandler) and GET /audio/...       *)
(* (http.FileServer).  The two sides share only the filesystem.            *)
(***************************************************************************)
EXTENDS Integers, Sequences, FiniteSets, TLC

(* ------------------------------ bounds --------------------------------- *)
MaxSweeps == 2
MaxRequests == 2
MaxTitleLen == 2
MaxKwLen == 1

(* ------------------------------ strings -------------------------------- *)
(* A string is a sequence of characters; the alphabet has one letter in    *)
(* both cases and one more letter.                                         *)
Chars == {"a", "A", "b"}

\* unicode.ToLower on one character
LowerChar(c) == IF c = "A" THEN "a" ELSE c

\* ToLower that leaves the case as it is
ToLowerKeepsCase(s) == s

\* strings.ToLower
ToLower(s) == [i \in 1..Len(s) |-> LowerChar(s[i])]

\* strings.Contains(s, substr): substr occurs in s as a contiguous run
Contains(s, substr) ==
    \E i \in 0..(Len(s) - Len(substr)) :
        \A j \in 1..Len(substr) : s[i + j] = substr[j]

\* all strings of length at most n
StringsUpTo(n) == UNION {[1..k -> Chars] : k \in 0..n}

(* ------------------------------ Go values ------------------------------ *)
\* a []string: nil, or a (possibly empty) sequence
NilSlice == [isNil |-> TRUE, elems |-> <<>>]
Slice(s) == [isNil |-> FALSE, elems |-> s]

\* the "keywords" member of one element of "ytfeeds" in the JSON file
JsonAbsent == [present |-> FALSE, null |-> FALSE, arr |-> <<>>]
JsonNull == [present |-> TRUE, null |-> TRUE, arr |-> <<>>]
JsonArray(a) == [present |-> TRUE, null |-> FALSE, arr |-> a]

\* json.Decoder.Decode into ConfFeed.Keywords: an absent member and null
\* leave the slice nil, an array (also an empty one) yields a non-nil slice
DecodeKeywords(j) ==
    IF j.present /\ ~j.null THEN Slice(j.arr) ELSE NilSlice

\* the published timestamps the feed documents carry
GoodTime == "2023-05-01T10:00:00+00:00"
BadTime == "yesterday"

\* time.Parse(time.RFC3339, s): TRUE when it returns a nil error
ParsesRFC3339(s) == s = GoodTime

\* a YtEntry; Media is a pointer, nil when the entry has no <group>
YtEntry(title, vid, published, hasMedia) ==
    [Title |-> title, VideoId |-> vid, Published |-> published,
     MediaNil |-> ~hasMedia]

(* --------------------------- configuration ----------------------------- *)
\* Conf.Feeds as readConfFeeds returns it
ConfFeeds ==
    << [Name |-> "one", ChannelId |-> "c1",
        Keywords |-> DecodeKeywords(JsonAbsent)],
       [Name |-> "two", ChannelId |-> "c2",
        Keywords |-> DecodeKeywords(JsonArray(<< <<"A">> >>))] >>

ChannelIds == {ConfFeeds[i].ChannelId : i \in 1..Len(ConfFeeds)}

(* ------------------------ the remote feed documents -------------------- *)
\* the entries of the well-formed document of a channel
RemoteEntries(channelId) ==
    IF channelId = "c1"
    THEN << YtEntry(<<"a", "b">>, "v1", GoodTime, TRUE),
            YtEntry(<<"b">>, "v2", BadTime, TRUE) >>
    ELSE << YtEntry(<<"b", "a">>, "v3", GoodTime, FALSE),
            YtEntry(<<"b", "b">>, "v4", GoodTime, TRUE) >>

VideoIds == {"v1", "v2", "v3", "v4"}

\* how a fetch can go: client.Do fails, the status is not 200, reading the
\* body fails, the body is not a feed document, the body is the document
FetchOutcomes == {"transport", "status", "bodyread", "garbage", "xml"}

\* the error readFeed returns: non-nil for a failed client.Do and for a
\* status other than 200; nil after a failed ReadAll, whose error is
\* assigned to an err declared in the inner block
readFeedErr(outcome) == outcome \in {"transport", "status"}

\* what readFeed can return for a channel: an error (transport, status other
\* than 200), or a nil error with a body that is the channel's document or
\* something xml.Unmarshal rejects (a malformed document; also the nil body
\* readFeed returns with a nil error when reading the body fails, because
\* the inner err shadows the one returned)
FetchResults(channelId) ==
    { [err |-> readFeedErr(o), wellFormed |-> (o = "xml"), why |-> o,
       entries |-> IF o = "xml" THEN RemoteEntries(channelId) ELSE <<>>] :
      o \in FetchOutcomes }

(* ------------------------------ parseFeed ------------------------------ *)
\* the inner loop of parseFeed over keywords[n..] for one entry: what it
\* appends to f.Entries; the first keyword found in the title appends the
\* entry and breaks
RECURSIVE KeywordLoop(_, _, _)
KeywordLoop(entry, kws, n) ==
    IF n > Len(kws) THEN <<>>
    ELSE IF Contains(ToLower(entry.Title), ToLower(kws[n])) THEN <<entry>>
    ELSE KeywordLoop(entry, kws, n + 1)

\* the outer loop of parseFeed over ytfeed.Entries[i..]
RECURSIVE EntryLoop(_, _, _)
EntryLoop(entries, kws, i) ==
    IF i > Len(entries) THEN <<>>
    ELSE KeywordLoop(entries[i], kws, 1) \o EntryLoop(entries, kws, i + 1)

\* parseFeed after a successful xml.Unmarshal: the Entries of its result
parseFeed(entries, keywords) ==
    IF keywords.isNil THEN entries
    ELSE EntryLoop(entries, keywords.elems, 1)

(* ------------------------------ filesystem ----------------------------- *)
\* getAudioFileName: audio/<channelId>/<videoId>.opus
getAudioFileName(channelId, videoId) == <<"audio", channelId, videoId, "opus">>

\* downloadAudio's outFile: the file named after the videoId in the
\* working directory
RawName(videoId) == <<videoId>>

\* recodeAudio's fileTmp
fileTmp == <<"tmp.opus">>

CanonicalPaths == {getAudioFileName(c, v) : c \in ChannelIds, v \in VideoIds}
Paths == CanonicalPaths \cup {RawName(v) : v \in VideoIds} \cup {fileTmp}

\* the number of bytes (write steps) of the recoded audio of a video
EncodedSize(videoId) == IF videoId = "v1" THEN 1 ELSE 2

Absent == [kind |-> "absent", vid |-> "", bytes |-> 0, whole |-> FALSE]
RawFile(videoId, whole) == [kind |-> "raw", vid |-> videoId, bytes |-> 0, whole |-> whole]
OpusFile(videoId, n) ==
    [kind |-> "opus", vid |-> videoId, bytes |-> n, whole |-> (n = EncodedSize(videoId))]

\* a converter told to write under the final name
EncoderTargetFinal(fileOut) == fileOut

\* the file the encoder is told to write (the last argument of the converter
\* command line): the temporary file, not fileOut
EncoderTarget(fileOut) == fileTmp

\* os.Stat on a path: nil error only when the file is there; "EIO" stands
\* for every error other than "not found"
StatResults(f) == IF f.kind = "absent" THEN {"ENOENT", "EIO"} ELSE {"ok", "EIO"}

(* ----------------------------- readiness ------------------------------- *)
\* what the live_status probe can print (CombinedOutput, as lines)
ProbeOutputs == { <<"not_live">>, <<"was_live">>, <<"is_live">>, <<"is_upcoming">> }

\* strings.Contains on the probe's output
HasMarker(out, marker) == \E i \in 1..Len(out) : out[i] = marker

\* isVideoReady that does not look at the command's error
isVideoReadyAnyExit(err, out) ==
    HasMarker(out, "not_live") \/ HasMarker(out, "was_live")

\* isVideoReady, from the command's error and output
isVideoReady(err, out) ==
    IF err THEN FALSE
    ELSE HasMarker(out, "not_live") \/ HasMarker(out, "was_live")

(* ------------------------------ feed items ----------------------------- *)
Digit(d) == <<"0", "1", "2", "3", "4", "5", "6", "7", "8", "9">>[d + 1]

\* strconv.FormatInt(n, 10) for n >= 0
RECURSIVE FormatInt(_)
FormatInt(n) ==
    IF n < 10 THEN <<Digit(n)>> ELSE FormatInt(n \div 10) \o <<Digit(n % 10)>>

\* an item whose enclosure length is not taken from the file
ItemWithoutSize(channelId, entry, fileInfo) ==
    [channelId |-> channelId, videoId |-> entry.VideoId,
     Title |-> entry.Title, Length |-> FormatInt(0)]

\* the feeds.Item built for an entry whose artifact os.Stat found
Item(channelId, entry, fileInfo) ==
    [channelId |-> channelId, videoId |-> entry.VideoId,
     Title |-> entry.Title, Length |-> FormatInt(fileInfo.bytes)]

NoResponse == [kind |-> "none", items |-> <<>>, path |-> <<>>, bytes |-> 0]
NoCmd == [tool |-> "none", err |-> FALSE, out |-> <<>>]
NoStat == [there |-> FALSE, res |-> "none"]

(* ------------------------------- state --------------------------------- *)
VARIABLES
    exit,      \* "running", or the log.Fatal call that ended the process
    files,     \* the filesystem: path -> content
    commits,   \* canonical path -> number of renames onto it
    sweepNo,   \* number of the current sweep (iteration of updateFeeds)
    spc,       \* where the sweep goroutine is
    sCh,       \* doUpdate: index of feed in conf.Feeds
    sFeed,     \* doUpdate: ytfeed.Entries
    sEnt,      \* doUpdate: index of entry in ytfeed.Entries
    sStat,     \* doUpdate: the existence check made for the current entry
    sTrail,    \* doUpdate: the calls that let the current entry go on, in order
    sCmd,      \* doUpdate: the last call made for the current entry and its result
    reqs,      \* number of HTTP requests received
    hpc,       \* where the feed request is
    hCh,       \* feedGetHandler: index of feed in conf.Feeds
    hFeed,     \* feedGetHandler: ytfeed.Entries
    hEnt,      \* feedGetHandler: index of entry in ytfeed.Entries
    hItems,    \* feedGetHandler: feedOut.Items
    resp,      \* the response to the last HTTP request
    fpc,       \* keyword filtering: step
    fJson,     \* keyword filtering: the "keywords" member of the configuration
    fDoc,      \* keyword filtering: the entries of the fetched document
    fKw,       \* keyword filtering: ConfFeed.Keywords
    fOut       \* keyword filtering: the entries parseFeed returns

sweepVars == <<sweepNo, spc, sCh, sFeed, sEnt, sStat, sTrail, sCmd>>
reqVars == <<reqs, hpc, hCh, hFeed, hEnt, hItems, resp>>
filterVars == <<fpc, fJson, fDoc, fKw, fOut>>
vars == <<exit, files, commits, sweepVars, reqVars, filterVars>>

Running == exit = "running"

\* the state main() leaves when it starts the sweep goroutine and the server
InitProgram ==
    /\ exit = "running"
    /\ files = [p \in Paths |-> Absent]
    /\ commits = [p \in CanonicalPaths |-> 0]
    /\ sweepNo = 1
    /\ spc = "fetch"
    /\ sCh = 1
    /\ sFeed = <<>>
    /\ sEnt = 0
    /\ sStat = NoStat
    /\ sTrail = <<>>
    /\ sCmd = NoCmd
    /\ reqs = 0
    /\ hpc = "idle"
    /\ hCh = 0
    /\ hFeed = <<>>
    /\ hEnt = 0
    /\ hItems = <<>>
    /\ resp = NoResponse

InitFilterIdle ==
    /\ fpc = "off"
    /\ fJson = JsonAbsent
    /\ fDoc = <<>>
    /\ fKw = NilSlice
    /\ fOut = <<>>

Init == InitProgram /\ InitFilterIdle

(* ------------------------------ the sweep ------------------------------ *)
\* the current feed, entry and destination of doUpdate
sChannel == ConfFeeds[sCh]
sEntry == sFeed[sEnt]
fileDst == getAudioFileName(sChannel.ChannelId, sEntry.VideoId)
fileDown == RawName(sEntry.VideoId)

\* "continue" of the outer loop, or its end: doUpdate returns
SweepNextChannel ==
    /\ sFeed' = <<>>
    /\ sEnt' = 0
    /\ IF sCh < Len(ConfFeeds)
       THEN spc' = "fetch" /\ sCh' = sCh + 1
       ELSE spc' = "sleep" /\ sCh' = 0

\* the next iteration of the inner loop, or its end
SweepNextEntry ==
    IF sEnt < Len(sFeed)
    THEN spc' = "stat" /\ sEnt' = sEnt + 1 /\ UNCHANGED <<sCh, sFeed>>
    ELSE SweepNextChannel

\* doUpdate: readFeed and parseFeed for the next channel
SweepReadFeed ==
    /\ Running /\ spc = "fetch"
    /\ \E r \in FetchResults(sChannel.ChannelId) :
         /\ sCmd' = [tool |-> "readFeed", err |-> r.err, out |-> <<r.why>>]
         /\ IF r.err
            THEN /\ SweepNextChannel
                 /\ UNCHANGED exit
            ELSE IF ~r.wellFormed
            THEN /\ exit' = "parseFeed@doUpdate"
                 /\ UNCHANGED <<spc, sCh, sFeed, sEnt>>
            ELSE LET es == parseFeed(r.entries, sChannel.Keywords) IN
                 /\ UNCHANGED exit
                 /\ IF Len(es) = 0
                    THEN SweepNextChannel
                    ELSE spc' = "stat" /\ sFeed' = es /\ sEnt' = 1 /\ UNCHANGED sCh
    /\ sStat' = NoStat
    /\ sTrail' = <<>>
    /\ UNCHANGED <<files, commits, sweepNo, reqVars, filterVars>>

\* doUpdate: the existence check of the entry's artifact
SweepStat ==
    /\ Running /\ spc = "stat"
    /\ \E res \in StatResults(files[fileDst]) :
         /\ sStat' = [there |-> (files[fileDst].kind # "absent"), res |-> res]
         /\ sTrail' = IF res = "ok" THEN <<>> ELSE <<"stat">>
         /\ sCmd' = NoCmd
         /\ IF res = "ok"
            THEN SweepNextEntry
            ELSE spc' = "probe" /\ UNCHANGED <<sCh, sFeed, sEnt>>
    /\ UNCHANGED <<exit, files, commits, sweepNo, reqVars, filterVars>>

\* doUpdate: isVideoReady
SweepProbe ==
    /\ Running /\ spc = "probe"
    /\ \E err \in BOOLEAN, out \in ProbeOutputs :
         /\ sCmd' = [tool |-> "probe", err |-> err, out |-> out]
         /\ IF ~isVideoReady(err, out)
            THEN SweepNextEntry /\ UNCHANGED sTrail
            ELSE /\ spc' = "download"
                 /\ sTrail' = Append(sTrail, "probe")
                 /\ UNCHANGED <<sCh, sFeed, sEnt>>
    /\ UNCHANGED <<exit, files, commits, sweepNo, sStat, reqVars, filterVars>>

\* isVideoReady when the downloader never exits: the command was made with
\* exec.Command, without a context, so CombinedOutput does not return
SweepProbeBlocks ==
    /\ Running /\ spc = "probe"
    /\ spc' = "blocked"
    /\ sCmd' = [tool |-> "wait", err |-> FALSE, out |-> <<"probe">>]
    /\ UNCHANGED <<exit, files, commits, sweepNo, sCh, sFeed, sEnt, sStat, sTrail, reqVars, filterVars>>

\* downloadAudio that leaves the file of a failed download
AfterDownloadErrorKeep(fs, outFile) == fs

\* downloadAudio after the downloader has failed: os.Remove(outFile)
AfterDownloadError(fs, outFile) == [fs EXCEPT ![outFile] = Absent]

\* doUpdate: downloadAudio.  A failing downloader leaves nothing or a
\* partial file behind; one that does not exit within the minute of the
\* context is killed and fails too.
SweepDownload ==
    /\ Running /\ spc = "download"
    /\ \E err \in BOOLEAN, partial \in BOOLEAN :
         /\ sCmd' = [tool |-> "download", err |-> err, out |-> <<>>]
         /\ IF err
            THEN /\ files' = AfterDownloadError(
                        IF partial
                        THEN [files EXCEPT ![fileDown] = RawFile(sEntry.VideoId, FALSE)]
                        ELSE files, fileDown)
                 /\ SweepNextEntry
                 /\ UNCHANGED sTrail
            ELSE /\ ~partial
                 /\ files' = [files EXCEPT ![fileDown] = RawFile(sEntry.VideoId, TRUE)]
                 /\ spc' = "recode"
                 /\ sTrail' = Append(sTrail, "download")
                 /\ UNCHANGED <<sCh, sFeed, sEnt>>
    /\ UNCHANGED <<exit, commits, sweepNo, sStat, reqVars, filterVars>>

\* recodeAudio: the converter starts and creates (-y: truncates) its output
SweepRecodeStart ==
    /\ Running /\ spc = "recode"
    /\ files' = [files EXCEPT ![EncoderTarget(fileDst)] = OpusFile(files[fileDown].vid, 0)]
    /\ spc' = "recoding"
    /\ sCmd' = [tool |-> "recode", err |-> FALSE, out |-> <<>>]
    /\ UNCHANGED <<exit, commits, sweepNo, sCh, sFeed, sEnt, sStat, sTrail, reqVars, filterVars>>

\* recodeAudio: the converter writes more of its output
SweepRecodeWrite ==
    /\ Running /\ spc = "recoding"
    /\ LET out == EncoderTarget(fileDst) IN
       /\ ~files[out].whole
       /\ files' = [files EXCEPT ![out] = OpusFile(files[out].vid, files[out].bytes + 1)]
    /\ UNCHANGED <<exit, commits, sweepVars, reqVars, filterVars>>

\* recodeAudio: the converter exits, with success only after it has written
\* all of its output; a failure is fatal
SweepRecodeExit ==
    /\ Running /\ spc = "recoding"
    /\ \E err \in BOOLEAN :
         /\ ~err => files[EncoderTarget(fileDst)].whole
         /\ sCmd' = [tool |-> "recode", err |-> err, out |-> <<>>]
         /\ IF err
            THEN exit' = "recodeAudio:converter" /\ UNCHANGED <<spc, sTrail>>
            ELSE spc' = "rename" /\ sTrail' = Append(sTrail, "recode") /\ UNCHANGED exit
    /\ UNCHANGED <<files, commits, sweepNo, sCh, sFeed, sEnt, sStat, reqVars, filterVars>>

\* recodeAudio when the converter never exits: exec.Command again, so
\* CombinedOutput does not return
SweepRecodeBlocks ==
    /\ Running /\ spc = "recoding"
    /\ spc' = "blocked"
    /\ sCmd' = [tool |-> "wait", err |-> FALSE, out |-> <<"recode">>]
    /\ UNCHANGED <<exit, files, commits, sweepNo, sCh, sFeed, sEnt, sStat, sTrail, reqVars, filterVars>>

\* a rename that leaves the source in place
RenameCopies(fs, from, to) ==
    [fs EXCEPT ![to] = fs[from]]

\* os.Rename(from, to) that succeeds
Rename(fs, from, to) ==
    IF from = to THEN fs ELSE [fs EXCEPT ![to] = fs[from], ![from] = Absent]

\* recodeAudio: os.Rename(fileTmp, fileOut); a failure is fatal
SweepRename ==
    /\ Running /\ spc = "rename"
    /\ \E err \in BOOLEAN :
         /\ sCmd' = [tool |-> "rename", err |-> err, out |-> <<>>]
         /\ IF err
            THEN /\ exit' = "recodeAudio:rename"
                 /\ UNCHANGED <<spc, files, commits, sTrail>>
            ELSE /\ files' = Rename(files, fileTmp, fileDst)
                 /\ commits' = [commits EXCEPT ![fileDst] = @ + 1]
                 /\ spc' = "remove"
                 /\ sTrail' = Append(sTrail, "rename")
                 /\ UNCHANGED exit
    /\ UNCHANGED <<sweepNo, sCh, sFeed, sEnt, sStat, reqVars, filterVars>>

\* doUpdate: os.Remove(fileDown) after recodeAudio has returned
SweepRemove ==
    /\ Running /\ spc = "remove"
    /\ files' = [files EXCEPT ![fileDown] = Absent]
    /\ sCmd' = [tool |-> "remove", err |-> FALSE, out |-> <<>>]
    /\ SweepNextEntry
    /\ UNCHANGED <<exit, commits, sweepNo, sStat, sTrail, reqVars, filterVars>>

\* updateFeeds: time.Sleep returns and the next doUpdate begins
SweepSleep ==
    /\ Running /\ spc = "sleep"
    /\ sweepNo < MaxSweeps
    /\ sweepNo' = sweepNo + 1
    /\ spc' = "fetch"
    /\ sCh' = 1
    /\ sStat' = NoStat
    /\ sTrail' = <<>>
    /\ sCmd' = NoCmd
    /\ UNCHANGED <<exit, files, commits, sFeed, sEnt, reqVars, filterVars>>

Sweep ==
    \/ SweepReadFeed
    \/ SweepStat
    \/ SweepProbe
    \/ SweepProbeBlocks
    \/ SweepDownload
    \/ SweepRecodeStart
    \/ SweepRecodeWrite
    \/ SweepRecodeExit
    \/ SweepRecodeBlocks
    \/ SweepRename
    \/ SweepRemove
    \/ SweepSleep

(* --------------------------- the HTTP server --------------------------- *)
hChannel == ConfFeeds[hCh]
hEntry == hFeed[hEnt]

\* "continue" of the outer loop of feedGetHandler, or its end
ReqNextChannel ==
    /\ hFeed' = <<>>
    /\ hEnt' = 0
    /\ IF hCh < Len(ConfFeeds)
       THEN hpc' = "fetch" /\ hCh' = hCh + 1
       ELSE hpc' = "write" /\ hCh' = 0

\* the next iteration of the inner loop of feedGetHandler, or its end
ReqNextEntry ==
    IF hEnt < Len(hFeed)
    THEN hpc' = "stat" /\ hEnt' = hEnt + 1 /\ UNCHANGED <<hCh, hFeed>>
    ELSE ReqNextChannel

\* GET /feed arrives: feedGetHandler creates feedOut
ReqFeed ==
    /\ Running /\ hpc = "idle"
    /\ reqs < MaxRequests
    /\ reqs' = reqs + 1
    /\ hpc' = "fetch"
    /\ hCh' = 1
    /\ hFeed' = <<>>
    /\ hEnt' = 0
    /\ hItems' = <<>>
    /\ resp' = NoResponse
    /\ UNCHANGED <<exit, files, commits, sweepVars, filterVars>>

\* feedGetHandler: readFeed and parseFeed for the next channel
ReqReadFeed ==
    /\ Running /\ hpc = "fetch"
    /\ \E r \in FetchResults(hChannel.ChannelId) :
         IF r.err
         THEN ReqNextChannel /\ UNCHANGED exit
         ELSE IF ~r.wellFormed
         THEN exit' = "parseFeed@feedGetHandler" /\ UNCHANGED <<hpc, hCh, hFeed, hEnt>>
         ELSE LET es == parseFeed(r.entries, hChannel.Keywords) IN
              /\ UNCHANGED exit
              /\ IF Len(es) = 0
                 THEN ReqNextChannel
                 ELSE hpc' = "stat" /\ hFeed' = es /\ hEnt' = 1 /\ UNCHANGED hCh
    /\ UNCHANGED <<files, commits, sweepVars, reqs, hItems, resp, filterVars>>

\* a handler that takes every os.Stat result for a file
StatFoundAlways(res) == TRUE

\* feedGetHandler's test of os.Stat's result: err == nil
StatFound(res) == res = "ok"

\* feedGetHandler: os.Stat of the entry's artifact and, when it is there,
\* the item.  A timestamp time.Parse rejects is fatal; a nil entry.Media
\* panics in the handler, which net/http recovers by dropping the request.
ReqStat ==
    /\ Running /\ hpc = "stat"
    /\ LET name == getAudioFileName(hChannel.ChannelId, hEntry.VideoId) IN
       \E res \in StatResults(files[name]) :
         IF ~StatFound(res)
         THEN ReqNextEntry /\ UNCHANGED <<exit, hItems, resp>>
         ELSE IF ~ParsesRFC3339(hEntry.Published)
         THEN /\ exit' = "feedGetHandler:time.Parse"
              /\ UNCHANGED <<hpc, hCh, hFeed, hEnt, hItems, resp>>
         ELSE IF hEntry.MediaNil
         THEN /\ resp' = [NoResponse EXCEPT !.kind = "aborted"]
              /\ hpc' = "idle"
              /\ hCh' = 0
              /\ hFeed' = <<>>
              /\ hEnt' = 0
              /\ hItems' = <<>>
              /\ UNCHANGED exit
         ELSE /\ hItems' = Append(hItems, Item(hChannel.ChannelId, hEntry, files[name]))
              /\ ReqNextEntry
              /\ UNCHANGED <<exit, resp>>
    /\ UNCHANGED <<files, commits, sweepVars, reqs, filterVars>>

\* feedGetHandler: feedOut.WriteAtom(w); a write error is fatal
ReqWrite ==
    /\ Running /\ hpc = "write"
    /\ \E err \in BOOLEAN :
         IF err
         THEN exit' = "feedGetHandler:WriteAtom" /\ UNCHANGED <<hpc, hItems, resp>>
         ELSE /\ resp' = [NoResponse EXCEPT !.kind = "feed", !.items = hItems]
              /\ hpc' = "idle"
              /\ hItems' = <<>>
              /\ UNCHANGED exit
    /\ UNCHANGED <<files, commits, sweepVars, reqs, hCh, hFeed, hEnt, filterVars>>

\* static delivery that opens the file with O_CREATE: a missing file comes
\* into being, empty
ReqStaticCreates ==
    /\ Running /\ hpc = "idle"
    /\ reqs < MaxRequests
    /\ reqs' = reqs + 1
    /\ \E p \in CanonicalPaths :
         /\ resp' = [NoResponse EXCEPT !.kind = "file", !.path = p, !.bytes = files[p].bytes]
         /\ files' = IF files[p].kind = "absent"
                     THEN [files EXCEPT ![p] = OpusFile(p[3], 0)]
                     ELSE files
    /\ UNCHANGED <<exit, commits, sweepVars, hpc, hCh, hFeed, hEnt, hItems, filterVars>>

\* GET /audio/<channelId>/<videoId>.opus: http.FileServer on directory audio
ReqStatic ==
    /\ Running /\ hpc = "idle"
    /\ reqs < MaxRequests
    /\ reqs' = reqs + 1
    /\ \E p \in CanonicalPaths :
         resp' = IF files[p].kind = "absent"
                 THEN [NoResponse EXCEPT !.kind = "404", !.path = p]
                 ELSE [NoResponse EXCEPT !.kind = "file", !.path = p, !.bytes = files[p].bytes]
    /\ UNCHANGED <<exit, files, commits, sweepVars, hpc, hCh, hFeed, hEnt, hItems, filterVars>>

Server ==
    \/ ReqFeed
    \/ ReqReadFeed
    \/ ReqStat
    \/ ReqWrite
    \/ ReqStatic

Next == Sweep \/ Server

Spec == Init /\ [][Next]_vars

(* ------------------- keyword filtering on its own --------------------- *)
(* parseFeed and the decoding of "keywords" applied to every small         *)
(* configuration and document.                                             *)
Titles == StringsUpTo(MaxTitleLen)
KeywordStrings == StringsUpTo(MaxKwLen)

\* documents of at most two entries
FilterDocs ==
    {<<>>}
    \cup {<< YtEntry(t, "e1", GoodTime, TRUE) >> : t \in Titles}
    \cup {<< YtEntry(t, "e1", GoodTime, TRUE), YtEntry(u, "e2", GoodTime, TRUE) >> :
            t \in Titles, u \in Titles}

\* "keywords" absent, null, or an array of at most two keywords
FilterJson ==
    {JsonAbsent, JsonNull, JsonArray(<<>>)}
    \cup {JsonArray(<<k>>) : k \in KeywordStrings}
    \cup {JsonArray(<<k, l>>) : k \in KeywordStrings, l \in KeywordStrings}

InitFilter ==
    /\ InitProgram
    /\ fpc = "conf"
    /\ fJson \in FilterJson
    /\ fDoc \in FilterDocs
    /\ fKw = NilSlice
    /\ fOut = <<>>

\* readConfFeeds: the Keywords of the decoded ConfFeed
FilterReadConf ==
    /\ fpc = "conf"
    /\ fKw' = DecodeKeywords(fJson)
    /\ fpc' = "parse"
    /\ UNCHANGED <<exit, files, commits, sweepVars, reqVars, fJson, fDoc, fOut>>

\* parseFeed(data, feed.Keywords) on the well-formed document
FilterParse ==
    /\ fpc = "parse"
    /\ fOut' = parseFeed(fDoc, fKw)
    /\ fpc' = "done"
    /\ UNCHANGED <<exit, files, commits, sweepVars, reqVars, fJson, fDoc, fKw>>

NextFilter == FilterReadConf \/ FilterParse

SpecFilter == InitFilter /\ [][NextFilter]_vars

(* ------------------------------- claims -------------------------------- *)
\* the calls doUpdate makes for an entry from the download on
PipelineCalls == {"download", "recode", "rename", "remove"}

\* C1: an entry whose artifact was in place when the sweep reached it is
\* neither downloaded nor recoded, and no canonical path is committed more
\* than once.
C1_PresentArtifactNotRedone ==
    /\ sCmd.tool \in PipelineCalls => ~sStat.there
    /\ \A p \in CanonicalPaths : commits[p] <= 1

\* C2: whatever the sweep is doing, a canonical path holds no file or a
\* completely recoded one, and every size a reader was given for it (static
\* delivery, feed item) is the final size of the recoded audio.
C2_NoPartialArtifact ==
    /\ \A p \in CanonicalPaths :
         files[p].kind = "absent" \/ (files[p].kind = "opus" /\ files[p].whole)
    /\ resp.kind = "file" => resp.bytes = EncodedSize(resp.path[3])
    /\ \A i \in 1..Len(hItems) :
         hItems[i].Length = FormatInt(EncodedSize(hItems[i].videoId))
    /\ \A i \in 1..Len(resp.items) :
         resp.items[i].Length = FormatInt(EncodedSize(resp.items[i].videoId))

\* C2 witness: a reader asked for the canonical path of the entry whose
\* audio the converter has partly written, and got no file
C2_Witness ==
    /\ spc = "recoding"
    /\ files[fileTmp].kind = "opus" /\ files[fileTmp].bytes > 0 /\ ~files[fileTmp].whole
    /\ resp.kind = "404" /\ resp.path = fileDst
    /\ \E p \in CanonicalPaths : files[p].kind = "opus"

\* C3: every item of a feed under construction or sent has its artifact in
\* the store.
C3_ItemsHaveArtifacts ==
    /\ \A i \in 1..Len(hItems) :
         files[getAudioFileName(hItems[i].channelId, hItems[i].videoId)].kind # "absent"
    /\ \A i \in 1..Len(resp.items) :
         files[getAudioFileName(resp.items[i].channelId, resp.items[i].videoId)].kind # "absent"

\* C3 witness: a feed with an item was sent while the sweep was recoding
\* another entry, whose artifact the request had found missing
C3_Witness ==
    /\ resp.kind = "feed" /\ Len(resp.items) = 1
    /\ spc = "recoding"
    /\ files[fileDst].kind = "absent"

\* two characters that differ at most in case
SameLetter(c, d) == c = d \/ {c, d} = {"a", "A"}

\* the keyword occurs in the title as a substring, case ignored
OccursIn(title, keyword) ==
    \E i \in 0..(Len(title) - Len(keyword)) :
        \A j \in 1..Len(keyword) : SameLetter(title[i + j], keyword[j])

\* C4: with a non-empty keyword list parseFeed returns, in document order
\* and once each, exactly the entries whose title contains some keyword as
\* a substring, case ignored.
C4_FilterKeepsMatching ==
    (fpc = "done" /\ ~fKw.isNil /\ Len(fKw.elems) > 0) =>
        LET Keep(e) == \E n \in 1..Len(fKw.elems) : OccursIn(e.Title, fKw.elems[n])
        IN fOut = SelectSeq(fDoc, Keep)

\* C4 witness: of two entries the first is dropped and the second is kept,
\* by a keyword that is in its title only when case is ignored and that is
\* not the first keyword
C4_Witness ==
    /\ fpc = "done" /\ Len(fDoc) = 2 /\ fOut = <<fDoc[2]>>
    /\ Len(fKw.elems) = 2
    /\ ~Contains(fDoc[2].Title, fKw.elems[1])
    /\ ~Contains(fDoc[2].Title, fKw.elems[2])
    /\ ~OccursIn(fDoc[2].Title, fKw.elems[1])
    /\ Len(fDoc[2].Title) = 2

\* C5: a channel without a keywords member and a channel with
\* "keywords": [] both keep every entry of the document.
C5_EmptyKeywordsKeepAll ==
    (fpc = "done" /\ (fJson = JsonAbsent \/ fJson = JsonArray(<<>>))) => fOut = fDoc

\* the probe call succeeded and printed one of the two ready markers
ProbeSaysReady(cmd) ==
    ~cmd.err /\ \E i \in 1..Len(cmd.out) : cmd.out[i] \in {"was_live", "not_live"}

\* the sweep has left the current entry for the next one (or the next
\* channel, or the end of the sweep) and the process goes on
MovedOn ==
    /\ exit' = "running"
    /\ sweepNo' = sweepNo
    /\ \/ spc' = "stat" /\ sCh' = sCh /\ sFeed' = sFeed /\ sEnt' = sEnt + 1
       \/ spc' = "fetch" /\ sCh' = sCh + 1 /\ sEnt = Len(sFeed)
       \/ spc' = "sleep" /\ sCh = Len(ConfFeeds) /\ sEnt = Len(sFeed)

\* within a sweep the position <<channel, entry>> never goes back, so an
\* entry the sweep has left is not taken up again in that sweep
NeverBack ==
    (sweepNo' = sweepNo /\ spc # "sleep" /\ spc' # "sleep") =>
        \/ sCh' > sCh
        \/ sCh' = sCh /\ sEnt' >= sEnt

\* C6: after a probe that failed or printed no ready marker the sweep goes
\* on with the next entry, the filesystem unchanged and the process alive;
\* after a successful probe with a ready marker the entry goes to download.
C6_ReadinessGate ==
    [][/\ NeverBack
       /\ (spc = "probe" /\ sCmd'.tool = "probe") =>
            IF ProbeSaysReady(sCmd')
            THEN spc' = "download" /\ sCh' = sCh /\ sEnt' = sEnt /\ sFeed' = sFeed
            ELSE MovedOn /\ files' = files /\ commits' = commits]_vars

\* C6 witness: the probe of the first entry printed is_live and the sweep is
\* at the second entry, nothing downloaded
C6_Witness ==
    /\ sCmd.tool = "probe" /\ ~sCmd.err /\ sCmd.out = <<"is_live">>
    /\ spc = "stat" /\ sEnt = 2
    /\ \A p \in Paths : files[p].kind = "absent"

\* C7: after a failed download no file named after the videoId is left, the
\* converter is not run, no artifact is committed and the sweep goes on with
\* the next entry.
C7_DownloadFailureCleansUp ==
    [][/\ NeverBack
       /\ (spc = "download" /\ sCmd'.tool = "download" /\ sCmd'.err) =>
            /\ files'[fileDown].kind = "absent"
            /\ \A p \in Paths \ {fileDown} : files'[p] = files[p]
            /\ commits' = commits
            /\ MovedOn]_vars

\* C7 witness: the download of the first entry failed and the sweep is at
\* the second entry
C7_Witness ==
    /\ sCmd.tool = "download" /\ sCmd.err
    /\ spc = "stat" /\ sEnt = 2
    /\ files[RawName(sFeed[1].VideoId)].kind = "absent"

\* C8: when the converter or the final rename fails, the process keeps
\* running and the sweep is at the next entry.
C8_TranscodeFailureSkips ==
    (sCmd.tool \in {"recode", "rename"} /\ sCmd.err) =>
        exit = "running" /\ spc \in {"stat", "fetch", "sleep"}

\* C9: when a fetched document cannot be parsed, the process keeps running
\* and the sweep (the request) is at the next channel.
C9_MalformedFeedSkipsChannel ==
    /\ (sCmd.tool = "readFeed" /\ sCmd.out = <<"garbage">>) =>
          exit = "running" /\ spc \in {"fetch", "sleep"}
    /\ exit # "parseFeed@feedGetHandler"

\* C10: a feed request that meets an entry with a committed artifact and a
\* malformed timestamp or no description group is answered with a feed and
\* does not end the process.
C10_FeedRequestAlwaysAnswered ==
    /\ exit # "feedGetHandler:time.Parse"
    /\ resp.kind # "aborted"

\* C11: an entry whose existence check failed with an error other than
\* "not found" is skipped: it is neither probed nor downloaded nor recoded.
C11_StatErrorSkipsEntry ==
    sStat.res = "EIO" => (spc # "probe" /\ sCmd.tool \notin ({"probe"} \cup PipelineCalls))

\* C12: after a fetch that failed (transport error, status other than 200,
\* body not received) the process keeps running and the sweep is at the
\* next channel or, after the last channel, asleep until the next sweep.
C12_FetchFailureSkipsChannel ==
    (sCmd.tool = "readFeed" /\ sCmd.out[1] \in {"transport", "status", "bodyread"}) =>
        exit = "running" /\ spc \in {"fetch", "sleep"}

\* C13: the sweep never waits for ever on an external tool: a tool that
\* does not return is cut off by a timeout and the sweep goes on.
C13_NoCallWaitsForever == spc # "blocked"

\* the sweep is between download and the removal of the downloaded file
InPipeline == spc \in {"recode", "recoding", "rename", "remove"}

\* C14: at most one entry is being downloaded or recoded (a downloaded file
\* or a converter output in the working directory belongs to the entry the
\* one sweep is at), and the sweeping never ends: the process keeps running
\* and the sweep is never stuck.
C14_OneSweepForEver ==
    /\ \A p \in Paths \ CanonicalPaths :
         files[p].kind # "absent" =>
            (InPipeline \/ spc = "blocked" \/ exit # "running") /\ files[p].vid = sEntry.VideoId
    /\ exit = "running"
    /\ spc # "blocked"

\* C15: a step of a feed request or of static delivery leaves every file
\* (artifacts, downloaded files, converter output) as it was.
C15_RequestsOnlyRead ==
    [][reqVars' # reqVars => (files' = files /\ commits' = commits)]_vars

\* C15 witness: a feed request has taken an item and is checking the next
\* entry while the converter output is partly written
C15_Witness ==
    /\ hpc = "stat" /\ Len(hItems) = 1
    /\ spc = "recoding"
    /\ files[fileTmp].kind = "opus" /\ ~files[fileTmp].whole
    /\ files[fileDown].kind = "raw"

\* the number a decimal numeral stands for
DigitValue(c) == CHOOSE d \in 0..9 : Digit(d) = c
RECURSIVE DecimalValue(_)
DecimalValue(str) ==
    IF Len(str) = 0 THEN 0
    ELSE 10 * DecimalValue(SubSeq(str, 1, Len(str) - 1)) + DigitValue(str[Len(str)])

\* the enclosure length of an item is the size of the file at the item's
\* canonical path, which is the complete recoding of the item's video
LengthIsSize(item) ==
    LET f == files[getAudioFileName(item.channelId, item.videoId)] IN
    /\ f.kind = "opus" /\ f.whole /\ f.vid = item.videoId
    /\ DecimalValue(item.Length) = f.bytes

C17_CommitAfterAllSteps ==
    /\ (sCmd.tool = "rename" /\ ~sCmd.err) =>
          /\ ~sStat.there
          /\ sTrail = <<"stat", "probe", "download", "recode", "rename">>
    /\ \A p \in CanonicalPaths : files[p].kind # "absent" => commits[p] > 0

\* C18: an entry that was deferred (probe did not say ready) or whose
\* download failed is taken up again by a later sweep, so the program that
\* deferred it is still running its sweeps.
C18_DeferredEntryIsRetried ==
    \/ (sCmd.tool = "probe" /\ ~ProbeSaysReady(sCmd))
    \/ (sCmd.tool = "download" /\ sCmd.err)
    => exit = "running"

\* C19: a committed artifact is never removed, overwritten or changed by any
\* step of the sweep or of a request.
C19_CommittedArtifactsStay ==
    [][\A p \in CanonicalPaths :
          commits[p] > 0 => (commits'[p] = commits[p] /\ files'[p] = files[p])]_vars

\* C20: the file at the canonical path of (channelId, videoId) is the encoder
\* output made from that videoId; what is about to be committed was encoded
\* from the current entry's download; and while the sweep is between entries
\* or before the download of one, no raw download and no encoder temp file
\* exists.
C20_TempFilesAndBinding ==
    /\ \A c \in ChannelIds : \A v \in VideoIds :
          files[getAudioFileName(c, v)].kind # "absent" =>
             files[getAudioFileName(c, v)] = OpusFile(v, EncodedSize(v))
    /\ spc = "rename" =>
          /\ files[fileTmp] = OpusFile(sEntry.VideoId, EncodedSize(sEntry.VideoId))
          /\ files[fileDown] = RawFile(sEntry.VideoId, TRUE)
          /\ sTrail[Len(sTrail)] = "recode"
    /\ spc \in {"fetch", "stat", "probe", "download", "sleep"} =>
          \A p \in Paths \ CanonicalPaths : files[p].kind = "absent"

\* the sweep has moved on from an entry it published
C20_Witness ==
    /\ sCmd.tool = "remove"
    /\ spc \in {"fetch", "stat", "sleep"}
    /\ \E p \in CanonicalPaths : commits[p] > 0

====
